---- MODULE Spec2Model ----
(***************************************************************************)
(* Model of src/main.py, the Path of Exile 2 ladder rank tracker: one      *)
(* OAuth token exchange at startup, then a poll loop that looks the league *)
(* up, fetches its ladder, searches it for the tracked character, writes   *)
(* the result to the output file and sleeps.                               *)
(*                                                                         *)
(* Python values are records [kind, int, str] so that values of different  *)
(* Python types can be compared: kind is "None", "missing" (a key a JSON   *)
(* object does not have), "bool", "int" or "str".                          *)
(***************************************************************************)
EXTENDS Integers, Sequences, FiniteSets, TLC

VARIABLES
    gamemode,             \* args.gamemode
    use_doth,             \* args.doth
    update_interval_ms,   \* args.update
    debug,                \* args.debug
    client_id,            \* args.client_id
    client_secret,        \* args.client_secret
    token_response,       \* the token endpoint's answer, <<>> while none was received
    token_posts,          \* number of POSTs sent to the token endpoint
    access_token,         \* main(): access_token
    update_interval_sec,  \* main(): update_interval_sec, <<whole seconds, milliseconds>>
    league_name,          \* main(): league_name
    pc,                   \* where main() stands
    league_id,            \* get_character_rank(): league_id
    lookup_outcome,       \* how the league lookup of this cycle ended
    ladder_outcome,       \* how the ladder request of this cycle ended
    ladder_league,        \* the identifier the ladder URL of this cycle was built from
    ladder_entries,       \* get_character_rank(): entries, while they are scanned
    character_data,       \* main(): character_data, <<>> for None, <<dict>> otherwise
    output,               \* content of the output file
    write_ok,             \* whether the last write_output wrote without an I/O error
    slept,                \* <<argument of the last time.sleep call>>, <<>> before any
    trace,                \* requests and calls made in the current cycle, in order
    stop_reason           \* why main() returned, "" while it has not

vars == <<gamemode, use_doth, update_interval_ms, debug, client_id, client_secret,
          token_response, token_posts, access_token, update_interval_sec, league_name,
          pc, league_id, lookup_outcome, ladder_outcome, ladder_league, ladder_entries,
          character_data, output, write_ok, slept, trace, stop_reason>>

config == <<gamemode, use_doth, update_interval_ms, debug, client_id, client_secret>>
startup == <<token_response, token_posts, access_token, update_interval_sec, league_name>>

-----------------------------------------------------------------------------
(* Python values *)

PyNone == [kind |-> "None", int |-> 0, str |-> ""]
Missing == [kind |-> "missing", int |-> 0, str |-> ""]
PyStr(s) == [kind |-> "str", int |-> 0, str |-> s]
PyInt(n) == [kind |-> "int", int |-> n, str |-> ""]
PyBool(b) == [kind |-> "bool", int |-> IF b THEN 1 ELSE 0, str |-> ""]

\* Python truth value: None, False, 0 and "" are false.
Truthy(v) ==
    CASE v.kind = "str" -> v.str # ""
      [] v.kind = "int" -> v.int # 0
      [] v.kind = "bool" -> v.int # 0
      [] OTHER -> FALSE

\* dict.get(key, default) on the value stored under the key.
Get(v, default) == IF v.kind = "missing" THEN default ELSE v

Digits == <<"0", "1", "2", "3", "4", "5", "6", "7", "8", "9">>

RECURSIVE IntToStr(_)
IntToStr(n) ==
    IF n < 0 THEN "-" \o IntToStr(0 - n)
    ELSE IF n < 10 THEN Digits[n + 1]
    ELSE IntToStr(n \div 10) \o Digits[(n % 10) + 1]

\* What an f-string prints for a value.
Format(v) ==
    CASE v.kind = "int" -> IntToStr(v.int)
      [] v.kind = "str" -> v.str
      [] v.kind = "bool" -> IF v.int # 0 THEN "True" ELSE "False"
      [] OTHER -> "None"

SeqsUpTo(S, n) == UNION {[1..k -> S] : k \in 0..n}

-----------------------------------------------------------------------------
(* Bounds and input domains *)

MaxLeagues == 2
MaxEntries == 2

GameModes == {"standard", "hc", "ssf", "hcssf"}
UpdateValues == {0 - 1, 0, 1500}
Credentials == {PyNone, PyStr(""), PyStr("id")}

character_name == "Exile"
InitialOutput == "Level: 1 | Rank: 999 | Standard"

TokenResponses ==
    [fault : BOOLEAN, status : {200, 401}, body : {"object", "malformed", "array"},
     access_token : {Missing, PyStr(""), PyStr("tok")}]


\* A record of the active-league listing.
Leagues(name) ==
    [name : {PyStr(name), PyStr("Other League"), Missing},
     id : {Missing, PyStr(""), PyStr("league-id"), PyInt(7)}]

\* A ladder entry: the character's name, flags and level, and the entry's rank.
Flags == {Missing, PyBool(TRUE), PyBool(FALSE)}
EntriesRanked(ranks) ==
    [name : {PyStr(character_name), PyStr("exile")},
     dead : Flags, retired : Flags,
     level : {Missing, PyInt(0), PyInt(92)},
     rank : ranks]

Entries == EntriesRanked({Missing, PyInt(5)})

Decoy ==
    [name |-> PyStr("exile"), dead |-> PyBool(TRUE), retired |-> Missing,
     level |-> PyInt(100), rank |-> PyInt(1)]

\* Ladder bodies of the poll loop: no entry, one entry, or one entry behind another
\* character's.
LadderBodies ==
    LET E == EntriesRanked({Missing, PyInt(0), PyInt(5)}) IN
    {<<>>} \cup {<<e>> : e \in E} \cup {<<Decoy, e>> : e \in E}

-----------------------------------------------------------------------------
(* get_oauth_token *)

MissingCredentialsAnd(id, secret) == ~Truthy(id) /\ ~Truthy(secret)

MissingCredentials(id, secret) == ~Truthy(id) \/ ~Truthy(secret)

\* The token returned and the number of POSTs made, for the answer `resp` the token
\* endpoint gives when it is asked.
get_oauth_token(id, secret, resp) ==
    IF MissingCredentials(id, secret) THEN [token |-> PyNone, posts |-> 0]
    ELSE IF resp.fault THEN [token |-> PyNone, posts |-> 1]
    ELSE IF resp.status # 200 THEN [token |-> PyNone, posts |-> 1]
    ELSE IF resp.body # "object" THEN [token |-> PyNone, posts |-> 1]
    ELSE [token |-> Get(resp.access_token, PyNone), posts |-> 1]

-----------------------------------------------------------------------------
(* get_league_name *)

get_league_name_shared(mode, doth) ==
    IF doth THEN
        IF mode = "standard" THEN "Dawn of the Hunt"
        ELSE IF mode = "hc" THEN "Dawn of the Hunt"
        ELSE IF mode = "ssf" THEN "SSF Dawn of the Hunt"
        ELSE IF mode = "hcssf" THEN "HC SSF Dawn of the Hunt"
        ELSE "Unknown"
    ELSE
        IF mode = "standard" THEN "Standard"
        ELSE IF mode = "hc" THEN "Hardcore"
        ELSE IF mode = "ssf" THEN "Solo Self-Found"
        ELSE IF mode = "hcssf" THEN "Hardcore SSF"
        ELSE "Unknown"

get_league_name(mode, doth) ==
    IF doth THEN
        IF mode = "standard" THEN "Dawn of the Hunt"
        ELSE IF mode = "hc" THEN "HC Dawn of the Hunt"
        ELSE IF mode = "ssf" THEN "SSF Dawn of the Hunt"
        ELSE IF mode = "hcssf" THEN "HC SSF Dawn of the Hunt"
        ELSE "Unknown"
    ELSE
        IF mode = "standard" THEN "Standard"
        ELSE IF mode = "hc" THEN "Hardcore"
        ELSE IF mode = "ssf" THEN "Solo Self-Found"
        ELSE IF mode = "hcssf" THEN "Hardcore SSF"
        ELSE "Unknown"

-----------------------------------------------------------------------------
(* get_character_rank: the league lookup *)

\* The id of the first league of the listing whose name is `name`, None without one.
RECURSIVE FindLeague(_, _)
FindLeague(leagues, name) ==
    IF leagues = <<>> THEN PyNone
    ELSE IF Head(leagues).name = PyStr(name) THEN Get(Head(leagues).id, PyNone)
    ELSE FindLeague(Tail(leagues), name)

\* quote() takes a str; anything else raises TypeError.
QuoteRaises(id) == id.kind # "str"

-----------------------------------------------------------------------------
(* get_character_rank: the search of the ladder entries *)

StatusRetiredFirst(entry) ==
    IF Truthy(Get(entry.retired, PyBool(FALSE))) THEN PyStr("RETIRED")
    ELSE IF Truthy(Get(entry.dead, PyBool(FALSE))) THEN PyStr("DEAD")
    ELSE PyNone

Status(entry) ==
    IF Truthy(Get(entry.dead, PyBool(FALSE))) THEN PyStr("DEAD")
    ELSE IF Truthy(Get(entry.retired, PyBool(FALSE))) THEN PyStr("RETIRED")
    ELSE PyNone

CharacterData(entry) ==
    [level |-> Get(entry.level, PyStr("Unknown")),
     rank |-> Get(entry.rank, PyStr("Unknown")),
     status |-> Status(entry)]

\* <<character_data>> of the first entry named `name`, <<>> (None) without one.
RECURSIVE SearchEntries(_, _)
SearchEntries(entries, name) ==
    IF entries = <<>> THEN <<>>
    ELSE IF Head(entries).name = PyStr(name) THEN <<CharacterData(Head(entries))>>
    ELSE SearchEntries(Tail(entries), name)

-----------------------------------------------------------------------------
(* write_output *)

ContentNoBrackets(data, ladder_name) ==
    "Level: " \o Format(data.level) \o " | Rank: " \o Format(data.rank)
        \o " | " \o ladder_name

Content(data, ladder_name) ==
    IF Truthy(data.status)
    THEN "Level: " \o Format(data.level) \o " | Rank: [" \o Format(data.status)
             \o "] " \o Format(data.rank) \o " | " \o ladder_name
    ELSE "Level: " \o Format(data.level) \o " | Rank: " \o Format(data.rank)
             \o " | " \o ladder_name

\* What write_output puts into the file: the line for a result, nothing for None.
FileContent(data, ladder_name) ==
    IF data # <<>> THEN Content(data[1], ladder_name) ELSE ""


-----------------------------------------------------------------------------
(* main: startup *)

NoTokenIsNone(token) == token = PyNone

\* `if not access_token`
NoToken(token) == ~Truthy(token)

\* update_interval_ms / 1000 as <<whole seconds, remaining milliseconds>>.
Div1000(ms) == <<ms \div 1000, ms % 1000>>

Init ==
    /\ gamemode \in GameModes
    /\ use_doth \in BOOLEAN
    /\ update_interval_ms \in UpdateValues
    /\ debug \in BOOLEAN
    /\ client_id \in Credentials
    /\ client_secret \in Credentials
    /\ token_response = <<>>
    /\ token_posts = 0
    /\ access_token = PyNone
    /\ update_interval_sec = <<>>
    /\ league_name = ""
    /\ pc = "main"
    /\ league_id = PyNone
    /\ lookup_outcome = ""
    /\ ladder_outcome = ""
    /\ ladder_league = ""
    /\ ladder_entries = <<>>
    /\ character_data = <<>>
    /\ output = InitialOutput
    /\ write_ok = FALSE
    /\ slept = <<>>
    /\ trace = <<>>
    /\ stop_reason = ""

\* main() up to the loop: the token exchange, then either the return for want of a
\* token or the interval and the league name the loop runs with.
Main ==
    /\ pc = "main"
    /\ \E resp \in TokenResponses :
         LET r == get_oauth_token(client_id, client_secret, resp) IN
         /\ token_posts' = token_posts + r.posts
         /\ token_response' = IF r.posts = 0 THEN <<>> ELSE <<resp>>
         /\ access_token' = r.token
         /\ IF NoToken(r.token)
            THEN /\ pc' = "stopped"
                 /\ stop_reason' = "no_token"
                 /\ UNCHANGED <<update_interval_sec, league_name>>
            ELSE /\ update_interval_sec' = Div1000(update_interval_ms)
                 /\ league_name' = get_league_name(gamemode, use_doth)
                 /\ pc' = "leagues"
                 /\ UNCHANGED stop_reason
    /\ UNCHANGED <<config, league_id, lookup_outcome, ladder_outcome, ladder_league,
                   ladder_entries, character_data, output, write_ok, slept, trace>>

-----------------------------------------------------------------------------
(* get_character_rank: the league lookup *)

\* The answers of the league listing endpoint: a network fault, a status other than
\* 200, a 200 whose body is no JSON or no JSON object, a 200 with a listing.
LeagueResponses(name) ==
    {[fault |-> TRUE, status |-> 0, body |-> "", leagues |-> <<>>]}
    \cup {[fault |-> FALSE, status |-> st, body |-> "", leagues |-> <<>>] : st \in {401, 500}}
    \cup {[fault |-> FALSE, status |-> 200, body |-> b, leagues |-> <<>>] :
              b \in {"malformed", "array"}}
    \cup {[fault |-> FALSE, status |-> 200, body |-> "object", leagues |-> l] :
              l \in SeqsUpTo(Leagues(name), MaxLeagues)}

\* `return None` from the lookup: no ladder request follows.
Abort(why) == [outcome |-> why, league_id |-> PyNone, returns |-> TRUE]

\* The except branch of the lookup: the league name stands in for the id.
Fallback(name, why) == [outcome |-> why, league_id |-> PyStr(name), returns |-> FALSE]

HasLeague(leagues, name) == \E i \in 1..Len(leagues) : leagues[i].name = PyStr(name)

OnBadStatusFallback(name) == Fallback(name, "bad_status")

\* leagues_response.status_code != 200
OnBadStatus(name) == Abort("bad_status")

OnLookupExceptionAbort(name, why) == Abort(why)

\* except Exception as e: league_id = league_name
OnLookupException(name, why) == Fallback(name, why)

LeagueLookup(resp, name) ==
    IF resp.fault THEN OnLookupException(name, "exception")
    ELSE IF resp.status # 200 THEN OnBadStatus(name)
    ELSE IF resp.body # "object" THEN OnLookupException(name, "unparsable")
    ELSE LET id == FindLeague(resp.leagues, name) IN
         IF ~Truthy(id)
         THEN Abort(IF HasLeague(resp.leagues, name) THEN "empty_id" ELSE "no_match")
         ELSE [outcome |-> "match", league_id |-> id, returns |-> FALSE]

\* get_character_rank() from its start to the ladder URL: the token check, the league
\* listing request, the scan of the listing and quote().
LeaguesRequest ==
    /\ pc = "leagues"
    /\ IF ~Truthy(access_token)
       THEN /\ character_data' = <<>>
            /\ pc' = "write"
            /\ lookup_outcome' = "no_token"
            /\ UNCHANGED <<league_id, trace>>
       ELSE \E resp \in LeagueResponses(league_name) :
              LET r == LeagueLookup(resp, league_name) IN
              /\ trace' = Append(trace, "league_get")
              /\ league_id' = r.league_id
              /\ IF r.returns
                 THEN /\ lookup_outcome' = r.outcome
                      /\ character_data' = <<>>
                      /\ pc' = "write"
                 ELSE IF QuoteRaises(r.league_id)
                 THEN /\ lookup_outcome' = "bad_id"
                      /\ character_data' = <<>>
                      /\ pc' = "write"
                 ELSE /\ lookup_outcome' = r.outcome
                      /\ character_data' = character_data
                      /\ pc' = "ladder"
    /\ UNCHANGED <<config, startup, ladder_outcome, ladder_league, ladder_entries,
                   output, write_ok, slept, stop_reason>>


-----------------------------------------------------------------------------
(* get_character_rank: the ladder request *)

\* The answers of the ladder endpoint: a network fault, 429 with or without a
\* Retry-After header, 404, another status, a 200 whose body is no JSON or no JSON
\* object, a 200 with a ladder (whose debug dump may fail).
LadderResponses ==
    {[fault |-> TRUE, status |-> 0, retry_after |-> Missing, body |-> "",
      dump_fails |-> FALSE, entries |-> <<>>]}
    \cup {[fault |-> FALSE, status |-> 429, retry_after |-> ra, body |-> "",
           dump_fails |-> FALSE, entries |-> <<>>] : ra \in {Missing, PyStr("120")}}
    \cup {[fault |-> FALSE, status |-> st, retry_after |-> Missing, body |-> "",
           dump_fails |-> FALSE, entries |-> <<>>] : st \in {404, 500}}
    \cup {[fault |-> FALSE, status |-> 200, retry_after |-> Missing, body |-> b,
           dump_fails |-> FALSE, entries |-> <<>>] : b \in {"malformed", "array"}}
    \cup {[fault |-> FALSE, status |-> 200, retry_after |-> Missing, body |-> "object",
           dump_fails |-> TRUE, entries |-> <<e>>] : e \in {Decoy}}
    \cup {[fault |-> FALSE, status |-> 200, retry_after |-> Missing, body |-> "object",
           dump_fails |-> FALSE, entries |-> e] : e \in LadderBodies}

\* The part of get_character_rank() after the ladder request: the outcome and the
\* value returned, <<>> for None.
LadderResult(resp, name, dbg) ==
    IF resp.fault THEN [outcome |-> "exception", data |-> <<>>]
    ELSE IF resp.status = 429 THEN [outcome |-> "rate_limited", data |-> <<>>]
    ELSE IF resp.status # 200
    THEN [outcome |-> IF resp.status = 404 THEN "not_found" ELSE "bad_status",
          data |-> <<>>]
    ELSE IF resp.body = "malformed" THEN [outcome |-> "unparsable", data |-> <<>>]
    ELSE IF dbg /\ resp.dump_fails THEN [outcome |-> "dump_failed", data |-> <<>>]
    ELSE IF resp.body # "object" THEN [outcome |-> "not_object", data |-> <<>>]
    ELSE IF resp.entries = <<>> THEN [outcome |-> "empty", data |-> <<>>]
    ELSE LET found == SearchEntries(resp.entries, name) IN
         [outcome |-> IF found = <<>> THEN "no_entry" ELSE "found", data |-> found]

LadderRequest ==
    /\ pc = "ladder"
    /\ \E resp \in LadderResponses :
         LET r == LadderResult(resp, character_name, debug) IN
         /\ ladder_outcome' = r.outcome
         /\ character_data' = r.data
    /\ ladder_league' = league_id.str
    /\ trace' = Append(trace, "ladder_get")
    /\ pc' = "write"
    /\ UNCHANGED <<config, startup, league_id, lookup_outcome, ladder_entries, output,
                   write_ok, slept, stop_reason>>

\* The scan of a ladder's entries alone, lines 209 to 246.
ParseLadder ==
    /\ pc = "parse"
    /\ character_data' = SearchEntries(ladder_entries, character_name)
    /\ ladder_outcome' = IF ladder_entries = <<>> THEN "empty"
                         ELSE IF character_data' = <<>> THEN "no_entry" ELSE "found"
    /\ pc' = "write"
    /\ UNCHANGED <<config, startup, league_id, lookup_outcome, ladder_league,
                   ladder_entries, output, write_ok, slept, trace, stop_reason>>

-----------------------------------------------------------------------------
(* write_output *)

\* The file is opened for writing, which empties it, and the content is written.
WriteOutput ==
    /\ pc = "write"
    /\ output' = FileContent(character_data, league_name)
    /\ write_ok' = TRUE
    /\ trace' = Append(trace, "write_output")
    /\ pc' = "sleep"
    /\ UNCHANGED <<config, startup, league_id, lookup_outcome, ladder_outcome,
                   ladder_league, ladder_entries, character_data, slept, stop_reason>>

\* An I/O error, caught and logged: the file could not be opened and is as it was, or
\* it was opened, and so emptied, and the write failed.
WriteOutputFails ==
    /\ pc = "write"
    /\ output' \in {output, ""}
    /\ write_ok' = FALSE
    /\ trace' = Append(trace, "write_output")
    /\ pc' = "sleep"
    /\ UNCHANGED <<config, startup, league_id, lookup_outcome, ladder_outcome,
                   ladder_league, ladder_entries, character_data, slept, stop_reason>>

-----------------------------------------------------------------------------
(* main: the end of a cycle *)

\* The seconds a sleep that backs off after a 429 would ask for.
SleepArgRetryAfter == IF ladder_outcome = "rate_limited" THEN <<60, 0>> ELSE update_interval_sec

\* The argument of time.sleep.
SleepArg == update_interval_sec

\* The call of time.sleep(update_interval_sec): a negative argument raises
\* ValueError, which the handler of line 326 catches, and main() returns.
Sleep ==
    /\ pc = "sleep"
    /\ slept' = <<SleepArg>>
    /\ IF SleepArg[1] < 0
       THEN pc' = "stopped" /\ stop_reason' = "Exception"
       ELSE pc' = "sleeping" /\ UNCHANGED stop_reason
    /\ UNCHANGED <<config, startup, league_id, lookup_outcome, ladder_outcome,
                   ladder_league, ladder_entries, character_data, output, write_ok, trace>>

\* time.sleep returns and the next cycle starts; the values of the cycle that ended
\* are dead and are cleared.
WakeUp ==
    /\ pc = "sleeping"
    /\ pc' = "leagues"
    /\ league_id' = PyNone
    /\ lookup_outcome' = ""
    /\ ladder_outcome' = ""
    /\ ladder_league' = ""
    /\ character_data' = <<>>
    /\ write_ok' = FALSE
    /\ trace' = <<>>
    /\ UNCHANGED <<config, startup, ladder_entries, output, slept, stop_reason>>

\* KeyboardInterrupt, at any point of the loop: no handler below main()'s catches it.
\* One that arrives while the file is written may leave the file emptied.
Interrupt ==
    /\ pc \in {"leagues", "ladder", "write", "sleep", "sleeping"}
    /\ pc' = "stopped"
    /\ stop_reason' = "KeyboardInterrupt"
    /\ output' \in IF pc = "write" THEN {output, ""} ELSE {output}
    /\ UNCHANGED <<config, startup, league_id, lookup_outcome, ladder_outcome,
                   ladder_league, ladder_entries, character_data, write_ok, slept, trace>>

Next ==
    \/ Main
    \/ LeaguesRequest
    \/ LadderRequest
    \/ WriteOutput
    \/ WriteOutputFails
    \/ Sleep
    \/ WakeUp
    \/ Interrupt

Spec == Init /\ [][Next]_vars

-----------------------------------------------------------------------------
(* The search of the ladder entries on its own, over every ladder of up to
   MaxEntries entries. *)

InitSearch ==
    /\ gamemode = "standard"
    /\ use_doth = FALSE
    /\ update_interval_ms = 1500
    /\ debug = FALSE
    /\ client_id = PyStr("id")
    /\ client_secret = PyStr("id")
    /\ token_response = <<>>
    /\ token_posts = 1
    /\ access_token = PyStr("tok")
    /\ update_interval_sec = Div1000(1500)
    /\ league_name = get_league_name("standard", FALSE)
    /\ pc = "parse"
    /\ league_id = PyStr("league-id")
    /\ lookup_outcome = "match"
    /\ ladder_outcome = ""
    /\ ladder_league = "league-id"
    /\ \E k \in 0..MaxEntries : ladder_entries \in [1..k -> Entries]
    /\ character_data = <<>>
    /\ output = InitialOutput
    /\ write_ok = FALSE
    /\ slept = <<>>
    /\ trace = <<"league_get", "ladder_get">>
    /\ stop_reason = ""

NextSearch == ParseLadder

SpecSearch == InitSearch /\ [][NextSearch]_vars


-----------------------------------------------------------------------------
(* Properties *)

LoopPcs == {"leagues", "ladder", "write", "sleep", "sleeping"}

\* Where main() stands once write_output has returned.
Written == {"sleep", "sleeping"}

LookupFallsBack == {"exception", "unparsable"}
LookupReturnsNone == {"bad_status", "no_match", "empty_id", "bad_id"}

\* C1, as the specification states it: every cycle that reaches its sleep has made
\* exactly one league listing request, one ladder request and one write_output call,
\* in that order, whatever the outcome of the lookup.
C1_OneLookupOneSearchOneWrite ==
    pc \in Written => trace = <<"league_get", "ladder_get", "write_output">>

\* C1, amended: every cycle makes exactly one league listing request first and exactly
\* one write_output call last; one ladder request lies between them when the lookup
\* found the league with a usable id or raised an exception, and none when the listing
\* answered a status other than 200, listed no league of the name, or listed it with
\* an empty, absent or non-string id.
C1_CycleRequests ==
    /\ pc = "leagues" => trace = <<>>
    /\ pc = "ladder" => trace = <<"league_get">> /\ lookup_outcome \in LookupFallsBack \cup {"match"}
    /\ pc = "write" =>
         \/ trace = <<"league_get", "ladder_get">> /\ lookup_outcome \in LookupFallsBack \cup {"match"}
         \/ trace = <<"league_get">> /\ lookup_outcome \in LookupReturnsNone
    /\ pc \in Written =>
         \/ /\ trace = <<"league_get", "ladder_get", "write_output">>
            /\ lookup_outcome \in LookupFallsBack \cup {"match"}
         \/ /\ trace = <<"league_get", "write_output">>
            /\ lookup_outcome \in LookupReturnsNone

C1_Witness ==
    /\ pc = "sleeping"
    /\ trace = <<"league_get", "write_output">>
    /\ lookup_outcome = "no_match"
    /\ slept # <<>>

\* C2, as the specification states it: when the league listing request fails (status
\* other than 200, exception, unparsable body) or lists no league of the name, the
\* league name itself is the identifier and the ladder request is issued with it.
C2_LookupFailureFallsBack ==
    (pc \in {"ladder", "write", "sleep", "sleeping"}
        /\ lookup_outcome \in {"bad_status", "exception", "unparsable", "no_match"}) =>
      /\ league_id = PyStr(league_name)
      /\ \/ pc = "ladder"
         \/ Len(trace) >= 2 /\ trace[2] = "ladder_get" /\ ladder_league = league_name

\* C2, amended: when the league listing request raises an exception (network fault,
\* unparsable body) the league name itself, unmodified, is the identifier and the
\* ladder request is issued with it; when the listing answers a status other than 200
\* or lists no league of the name, get_character_rank returns None and no ladder
\* request is issued in that cycle.
C2_FallbackOnExceptionOnly ==
    /\ (pc \in {"ladder", "write", "sleep", "sleeping"} /\ lookup_outcome \in LookupFallsBack) =>
         /\ league_id = PyStr(league_name)
         /\ \/ pc = "ladder" /\ trace = <<"league_get">>
            \/ Len(trace) >= 2 /\ trace[2] = "ladder_get" /\ ladder_league = league_name
    /\ (pc \in {"ladder", "write", "sleep", "sleeping"} /\ lookup_outcome \in {"bad_status", "no_match"}) =>
         /\ pc # "ladder"
         /\ \A i \in 1..Len(trace) : trace[i] # "ladder_get"
         /\ character_data = <<>>
         /\ ladder_league = ""

C2_Witness ==
    /\ pc = "sleeping"
    /\ lookup_outcome = "exception"
    /\ league_name = "HC Dawn of the Hunt"
    /\ ladder_league = "HC Dawn of the Hunt"
    /\ trace = <<"league_get", "ladder_get", "write_output">>

\* C3: every failure of a cycle stays in its cycle: the cycle still calls
\* write_output, with None, which leaves the file empty when the write succeeds, and
\* the loop sleeps and starts the next cycle, so that after a failed cycle main()
\* has stopped only if the operator interrupted it.
C3_FailureConfinedToCycle ==
    /\ (pc = "write" /\ ladder_outcome # "found") => character_data = <<>>
    /\ (pc \in Written /\ ladder_outcome # "found") =>
         /\ trace[Len(trace)] = "write_output"
         /\ write_ok => output = ""
    /\ (pc = "stopped" /\ stop_reason # "no_token" /\ ladder_outcome # "found") =>
         stop_reason = "KeyboardInterrupt"

\* The part of C3 that does not depend on the sleep: a failed cycle passes None to
\* write_output, and a write that succeeds leaves the file empty, whatever the file
\* held before.
FailedCycleEmptiesFile ==
    /\ (pc = "write" /\ ladder_outcome # "found") => character_data = <<>>
    /\ (pc \in Written /\ ladder_outcome # "found") =>
         /\ trace[Len(trace)] = "write_output"
         /\ write_ok => output = ""

\* C4: when the token exchange fails (a credential missing, a status other than 200,
\* a network fault, a body that is no JSON object, a body without access_token),
\* main() stops at once: no request of the loop, no write and no sleep is ever made;
\* the loop runs only with a non-empty token.
C4_NoTokenNoLoop ==
    /\ pc \in LoopPcs => access_token.kind = "str" /\ access_token.str # ""
    /\ stop_reason = "no_token" =>
         /\ pc = "stopped"
         /\ trace = <<>>
         /\ output = InitialOutput
         /\ slept = <<>>
         /\ lookup_outcome = "" /\ ladder_outcome = "" /\ ladder_league = ""
    /\ pc # "main" =>
         LET failed ==
               \/ client_id \in {PyNone, PyStr("")}
               \/ client_secret \in {PyNone, PyStr("")}
               \/ token_response[1].fault
               \/ token_response[1].status # 200
               \/ token_response[1].body # "object"
               \/ token_response[1].access_token = Missing
         IN failed => stop_reason = "no_token"

C4_Witness ==
    /\ stop_reason = "no_token"
    /\ token_posts = 1
    /\ ~token_response[1].fault
    /\ token_response[1].status = 200
    /\ token_response[1].body = "object"
    /\ token_response[1].access_token = Missing

\* C5: get_oauth_token makes no request when client_id or client_secret is empty or
\* absent, and returns failure; with both non-empty it makes exactly one POST.
C5_PostOnlyWithBothCredentials ==
    /\ token_posts \in {0, 1}
    /\ pc = "main" => token_posts = 0
    /\ pc # "main" =>
         IF client_id = PyStr("id") /\ client_secret = PyStr("id")
         THEN token_posts = 1 /\ token_response # <<>>
         ELSE /\ token_posts = 0
              /\ token_response = <<>>
              /\ access_token = PyNone
              /\ stop_reason = "no_token"

C5_Witness ==
    /\ pc = "stopped"
    /\ client_id = PyStr("id")
    /\ client_secret = PyStr("")
    /\ token_posts = 0


\* The first entry of the ladder under scan that carries the tracked name.
FirstMatch ==
    CHOOSE i \in 1..Len(ladder_entries) :
        /\ ladder_entries[i].name = PyStr(character_name)
        /\ \A j \in 1..(i - 1) : ladder_entries[j].name # PyStr(character_name)

\* C6: for a ladder with an entry of the tracked name, the search returns the status
\* "DEAD" when dead is true, whatever retired is, "RETIRED" when dead is false or
\* absent and retired is true, and none when both are false or absent; level and
\* rank are the entry's, or "Unknown" when the entry has none.
C6_StatusFromFlags ==
    (pc = "write" /\ \E i \in 1..Len(ladder_entries) :
                        ladder_entries[i].name = PyStr(character_name)) =>
      LET e == ladder_entries[FirstMatch]
          status == CASE e.dead = PyBool(TRUE) -> PyStr("DEAD")
                      [] e.dead # PyBool(TRUE) /\ e.retired = PyBool(TRUE) -> PyStr("RETIRED")
                      [] OTHER -> PyNone
      IN /\ Len(character_data) = 1
         /\ character_data[1].status = status
         /\ character_data[1].level = IF e.level = Missing THEN PyStr("Unknown") ELSE e.level
         /\ character_data[1].rank = IF e.rank = Missing THEN PyStr("Unknown") ELSE e.rank

C6_Witness ==
    /\ pc = "write"
    /\ Len(ladder_entries) = 2
    /\ ladder_entries[1].name = PyStr("exile")
    /\ ladder_entries[2] = [name |-> PyStr(character_name), dead |-> PyBool(TRUE),
                            retired |-> PyBool(TRUE), level |-> Missing, rank |-> PyInt(5)]
    /\ character_data = <<[level |-> PyStr("Unknown"), rank |-> PyInt(5),
                           status |-> PyStr("DEAD")]>>

\* The decimal text of the levels and ranks of the model's ladders.
Shown(v) ==
    CASE v = PyInt(0) -> "0"
      [] v = PyInt(5) -> "5"
      [] v = PyInt(92) -> "92"
      [] v = PyStr("Unknown") -> "Unknown"

\* C7: after a write_output that succeeded the file holds exactly
\* "Level: {level} | Rank: [{STATUS}] {rank} | {league}" for a result with a status,
\* "Level: {level} | Rank: {rank} | {league}" for one without, whatever it held
\* before, and is empty if and only if no result was passed.
C7_FileContent ==
    (pc \in Written /\ write_ok) =>
      /\ output = "" <=> character_data = <<>>
      /\ character_data # <<>> =>
           LET d == character_data[1] IN
           /\ d.status \in {PyStr("DEAD"), PyStr("RETIRED")} =>
                output = "Level: " \o Shown(d.level) \o " | Rank: [" \o d.status.str
                             \o "] " \o Shown(d.rank) \o " | " \o league_name
           /\ d.status = PyNone =>
                output = "Level: " \o Shown(d.level) \o " | Rank: " \o Shown(d.rank)
                             \o " | " \o league_name
           /\ d.status \in {PyStr("DEAD"), PyStr("RETIRED"), PyNone}
           /\ (d = [level |-> PyInt(92), rank |-> PyInt(5), status |-> PyNone]
                 /\ gamemode = "standard" /\ ~use_doth) =>
                output = "Level: 92 | Rank: 5 | Standard"

C7_Witness ==
    /\ pc = "sleep"
    /\ write_ok
    /\ slept # <<>>
    /\ character_data = <<[level |-> PyInt(0), rank |-> PyStr("Unknown"),
                           status |-> PyStr("DEAD")]>>
    /\ output = "Level: 0 | Rank: [DEAD] Unknown | Hardcore SSF"

\* C8: get_league_name gives each of the 8 pairs of a game mode and the league flag
\* its own fixed league name, "Dawn of the Hunt" for standard with the flag and
\* "Standard" for standard without, and never "Unknown"; the loop runs with that name.
C8_LeagueNames ==
    /\ Cardinality({get_league_name(m, d) : m \in GameModes, d \in BOOLEAN}) = 8
    /\ \A m \in GameModes : \A d \in BOOLEAN : get_league_name(m, d) # "Unknown"
    /\ get_league_name("standard", TRUE) = "Dawn of the Hunt"
    /\ get_league_name("standard", FALSE) = "Standard"
    /\ pc \in LoopPcs =>
         /\ league_name # "Unknown"
         /\ (gamemode = "standard" /\ use_doth) => league_name = "Dawn of the Hunt"
         /\ (gamemode = "standard" /\ ~use_doth) => league_name = "Standard"
         /\ league_name \in {"Dawn of the Hunt", "HC Dawn of the Hunt", "SSF Dawn of the Hunt",
                             "HC SSF Dawn of the Hunt", "Standard", "Hardcore",
                             "Solo Self-Found", "Hardcore SSF"}

C8_Witness ==
    /\ pc = "sleep"
    /\ gamemode = "hc"
    /\ use_doth
    /\ league_name = "HC Dawn of the Hunt"
    /\ output = "Level: 92 | Rank: 5 | HC Dawn of the Hunt"

\* C9: every time.sleep of the loop is asked for the configured interval,
\* update_interval_ms / 1000 seconds, also at the end of a cycle whose ladder request
\* was answered 429, with or without Retry-After, and of every cycle after it.
C9_SleepIsConfiguredInterval ==
    /\ slept # <<>> => slept[1][1] * 1000 + slept[1][2] = update_interval_ms
    /\ pc \in LoopPcs =>
         update_interval_sec[1] * 1000 + update_interval_sec[2] = update_interval_ms

C9_Witness ==
    /\ pc = "sleeping"
    /\ ladder_outcome = "rate_limited"
    /\ update_interval_ms = 1500
    /\ slept = <<(<<1, 500>>)>>

\* C10: once the loop runs, main() stops only on an operator interrupt, for every
\* --update value the parser accepts and every outcome of lookup, search, write and
\* sleep.
C10_OnlyInterruptStops ==
    (pc = "stopped" /\ stop_reason # "no_token") => stop_reason = "KeyboardInterrupt"

====
